---- MODULE Spec2Model ----
(***************************************************************************)
(* Model of the chat-mail incoming-email webhook handlers.                 *)
(*                                                                         *)
(*   src/api/index.ts      express handler with image attachments ("api")  *)
(*   src/unnamed/part_000  express handler, text only        ("express")   *)
(*   src/unnamed/part_001  hono handler, text only           ("hono")      *)
(*                                                                         *)
(* One run is one invocation of the POST handler.  A run's local variables *)
(* are the fields of runs[r]; its position in the handler is runs[r].pc.   *)
(* The external collaborators (attachment host, completion provider, mail  *)
(* provider) answer nondeterministically.  runs[r].calls is the history of *)
(* the external calls the run has made.                                    *)
(***************************************************************************)
EXTENDS Integers, Sequences, FiniteSets, TLC

VARIABLES runs

vars == <<runs>>

----------------------------------------------------------------------------
(* Bounds *)

\* longest attachment list a payload carries
MaxAtt == 3

\* number of webhook calls that may be in flight
NumRuns == 2

Runs == 1..NumRuns

----------------------------------------------------------------------------
(* JavaScript values: undefined, null and strings *)

Undefined == [t |-> "undefined", s |-> ""]

Null == [t |-> "null", s |-> ""]

Str(s) == [t |-> "string", s |-> s]

\* !v is false
Truthy(v) == v.t = "string" /\ v.s # ""

\* `${v}` inside a template literal
TemplateStr(v) == IF v.t = "string" THEN v.s ELSE v.t

\* String.prototype.startsWith
StartsWith(s, p) == Len(s) >= Len(p) /\ SubSeq(s, 1, Len(p)) = p

----------------------------------------------------------------------------
(* JSON text of the attachments field, as a token sequence *)

NoObj == [url |-> "", contentType |-> Undefined]

LBracket == [k |-> "[", obj |-> NoObj]

RBracket == [k |-> "]", obj |-> NoObj]

Comma == [k |-> ",", obj |-> NoObj]

ObjTok(a) == [k |-> "{}", obj |-> a]

RECURSIVE JoinObjs(_)
JoinObjs(list) ==
  IF list = <<>> THEN <<>>
  ELSE IF Len(list) = 1 THEN <<ObjTok(list[1])>>
  ELSE <<ObjTok(list[1]), Comma>> \o JoinObjs(Tail(list))

\* the sender side: JSON.stringify of an array of attachment objects
JSONStringify(list) == <<LBracket>> \o JoinObjs(list) \o <<RBracket>>

JSONInner(toks) == SubSeq(toks, 2, Len(toks) - 1)

JSONWellFormed(toks) ==
  /\ Len(toks) >= 2
  /\ toks[1].k = "["
  /\ toks[Len(toks)].k = "]"
  /\ LET inner == JSONInner(toks)
     IN  \/ inner = <<>>
         \/ /\ Len(inner) % 2 = 1
            /\ \A i \in 1..Len(inner) :
                 inner[i].k = (IF i % 2 = 1 THEN "{}" ELSE ",")

\* JSON.parse: the array, or a SyntaxError
JSONParse(toks) ==
  IF JSONWellFormed(toks)
  THEN [ok |-> TRUE,
        value |-> [i \in 1..((Len(JSONInner(toks)) + 1) \div 2) |->
                     JSONInner(toks)[2 * i - 1].obj]]
  ELSE [ok |-> FALSE, value |-> <<>>]

----------------------------------------------------------------------------
(* Buffer.toString("base64") *)

B64Alphabet == "ABCDEFGHIJKLMNOPQRSTUVWXYZabcdefghijklmnopqrstuvwxyz0123456789+/"

B64Char(n) == SubSeq(B64Alphabet, n + 1, n + 1)

RECURSIVE Base64(_)
Base64(bytes) ==
  IF bytes = <<>> THEN ""
  ELSE IF Len(bytes) = 1 THEN
    B64Char(bytes[1] \div 4) \o B64Char((bytes[1] % 4) * 16) \o "=="
  ELSE IF Len(bytes) = 2 THEN
    B64Char(bytes[1] \div 4)
      \o B64Char((bytes[1] % 4) * 16 + bytes[2] \div 16)
      \o B64Char((bytes[2] % 16) * 4) \o "="
  ELSE
    B64Char(bytes[1] \div 4)
      \o B64Char((bytes[1] % 4) * 16 + bytes[2] \div 16)
      \o B64Char((bytes[2] % 16) * 4 + bytes[3] \div 64)
      \o B64Char(bytes[3] % 64)
      \o Base64(SubSeq(bytes, 4, Len(bytes)))

----------------------------------------------------------------------------
(* The webhook payloads the model sends *)

Variants == {"api", "express", "hono"}

Senders == {Undefined, Str("a@x.com")}

Subjects == {Undefined, Str(""), Str("Hi"), Str("Re: Hi")}

Texts == {Undefined, Str(""), Str("What's 2+2?")}

MessageIds == {Undefined, Str("<m1@x.com>")}

\* attachment objects {url, content-type}; name and size are never read
AttachmentObjs ==
  { [url |-> "https://mg/a1", contentType |-> Str("image/png")],
    [url |-> "https://mg/a2", contentType |-> Str("image/jpeg")],
    [url |-> "https://mg/a3", contentType |-> Str("text/plain")],
    [url |-> "https://mg/a4", contentType |-> Str("image")],
    [url |-> "https://mg/a5", contentType |-> Undefined] }

AttachmentLists == UNION { [1..n -> AttachmentObjs] : n \in 0..MaxAtt }

\* The attachments field: undefined, a string (toks) or an array (items).
\* sent is the list the sender encoded into the string; no handler reads it.
AttUndefined == [t |-> "undefined", toks |-> <<>>, items |-> <<>>, sent |-> <<>>]

AttString(toks) == [t |-> "string", toks |-> toks, items |-> <<>>, sent |-> <<>>]

AttJSON(list) ==
  [t |-> "string", toks |-> JSONStringify(list), items |-> <<>>, sent |-> list]

AttArray(items) == [t |-> "array", toks |-> <<>>, items |-> items, sent |-> <<>>]

\* texts that are not JSON
MalformedJSON ==
  { <<LBracket>>,
    <<LBracket, ObjTok([url |-> "https://mg/a1", contentType |-> Str("image/png")]),
      Comma, RBracket>> }

AttachmentFields ==
  {AttUndefined, AttString(<<>>)}
    \cup { AttJSON(l) : l \in AttachmentLists }
    \cup { AttString(toks) : toks \in MalformedJSON }
    \cup { AttArray(l) : l \in { m \in AttachmentLists : Len(m) <= 1 } }

\* the text-only handlers never read the attachments field
AttachmentFieldsFor(variant) ==
  IF variant = "api" THEN AttachmentFields
  ELSE { AttUndefined,
         AttJSON(<<[url |-> "https://mg/a1", contentType |-> Str("image/png")]>>) }

Payloads(variant) ==
  [sender : Senders, subject : Subjects, strippedText : Texts,
   messageId : MessageIds, attachments : AttachmentFieldsFor(variant)]

----------------------------------------------------------------------------
(* The external collaborators *)

\* the bytes the attachment host serves at a url
BytesAt(url) ==
  IF url = "https://mg/a1" THEN <<137, 80, 78>>
  ELSE IF url = "https://mg/a2" THEN <<255, 216>>
  ELSE <<0>>

\* what fetch(url) can do: resolve with a response, or reject
FetchOutcomes(url) ==
  { [rejected |-> FALSE, ok |-> TRUE, status |-> "200", statusText |-> "OK",
     bytes |-> BytesAt(url)],
    [rejected |-> FALSE, ok |-> FALSE, status |-> "404", statusText |-> "Not Found",
     bytes |-> <<>>],
    [rejected |-> TRUE, ok |-> FALSE, status |-> "", statusText |-> "",
     bytes |-> <<>>] }

Error(message) == [isError |-> TRUE, message |-> message]

NoError == [isError |-> FALSE, message |-> ""]

\* a value that is thrown and is not an Error object
ThrownNonError == [isError |-> FALSE, message |-> "rejected"]

Choice(content) == [hasMessage |-> TRUE, content |-> content]

ChoiceNoMessage == [hasMessage |-> FALSE, content |-> Undefined]

\* what openai.chat.completions.create can do
CompletionOutcomes ==
  { [rejected |-> FALSE, choices |-> <<>>, err |-> NoError],
    [rejected |-> FALSE, choices |-> <<ChoiceNoMessage>>, err |-> NoError],
    [rejected |-> FALSE, choices |-> <<Choice(Null)>>, err |-> NoError],
    [rejected |-> FALSE, choices |-> <<Choice(Str(""))>>, err |-> NoError],
    [rejected |-> FALSE, choices |-> <<Choice(Str("4"))>>, err |-> NoError],
    [rejected |-> FALSE, choices |-> <<Choice(Str("4")), Choice(Str("5"))>>,
     err |-> NoError],
    [rejected |-> TRUE, choices |-> <<>>, err |-> Error("429 Rate limit")] }

\* what mg.messages.create can do
DispatchOutcomes ==
  { [rejected |-> FALSE, err |-> NoError],
    [rejected |-> TRUE, err |-> Error("Unauthorized")],
    [rejected |-> TRUE, err |-> ThrownNonError] }

FROM_EMAIL == "bot@chat.mail"

----------------------------------------------------------------------------
(* Content parts, envelopes and the history of external calls *)

TextPart(text) == [type |-> "text", text |-> text, url |-> ""]

ImagePart(url) == [type |-> "image_url", text |-> "", url |-> url]

\* `data:${attachment["content-type"]};base64,${base64Image}`
DataUri(contentType, base64Image) ==
  "data:" \o contentType \o ";base64," \o base64Image

NoEnvelope == [k \in {} |-> Undefined]

NoBody ==
  [sender |-> Undefined, subject |-> Undefined, strippedText |-> Undefined,
   messageId |-> Undefined, attachments |-> AttUndefined]

NoResponse == [status |-> 0, body |-> [status |-> "", message |-> ""]]

\* phase: "call" when the call is made, "ok" or "fail" when it settles
Event(op, phase, url, content, envelope) ==
  [op |-> op, phase |-> phase, url |-> url, content |-> content,
   envelope |-> envelope]

FetchEvent(phase, url) == Event("fetch", phase, url, <<>>, NoEnvelope)

CompletionEvent(phase, content) ==
  Event("completion", phase, "", content, NoEnvelope)

DispatchEvent(phase, envelope) == Event("dispatch", phase, "", <<>>, envelope)

IdleRun ==
  [variant |-> "none", pc |-> "idle", body |-> NoBody,
   sender |-> Undefined, subject |-> Undefined, strippedText |-> Undefined,
   messageId |-> Undefined, attachments |-> <<>>, userContent |-> <<>>,
   idx |-> 0, completion |-> <<>>, aiResponse |-> Undefined, error |-> NoError, thrown |-> FALSE,
   response |-> NoResponse, calls |-> <<>>]

----------------------------------------------------------------------------
(* The handler, step by step *)

\* Catch that logs the error and sends no response
CatchWithoutResponse(rn, err) ==
  [rn EXCEPT !.thrown = TRUE, !.error = err, !.pc = "done"]

\* Catch answering without res.status(500)
CatchWithoutStatus(rn, err) ==
  [rn EXCEPT !.thrown = TRUE, !.error = err, !.pc = "done",
             !.response =
               [status |-> 200,
                body |-> [status |-> "error",
                          message |-> IF err.isError THEN err.message
                                      ELSE "An unknown error occurred"]]]

\* catch (error) { res.status(500).json({status: "error", message}) }
Catch(rn, err) ==
  [rn EXCEPT !.thrown = TRUE, !.error = err, !.pc = "done",
             !.response =
               [status |-> 500,
                body |-> [status |-> "error",
                          message |-> IF err.isError THEN err.message
                                      ELSE "An unknown error occurred"]]]

\* res.json({ status: "success", ... })
Respond(rn) ==
  [rn EXCEPT !.pc = "done",
             !.response =
               [status |-> 200,
                body |-> [status |-> "success",
                          message |-> "Response sent successfully"]]]

\* ParseAttachments taking an array as it is
ParseAttachmentsAcceptsArray(field) ==
  IF field.t = "string" /\ field.toks # <<>>
  THEN JSONParse(field.toks)
  ELSE IF field.t = "array" THEN [ok |-> TRUE, value |-> field.items]
  ELSE [ok |-> TRUE, value |-> <<>>]

\* body.attachments && typeof body.attachments === "string"
\*   ? JSON.parse(body.attachments) : []
ParseAttachments(field) ==
  IF field.t = "string" /\ field.toks # <<>>
  THEN JSONParse(field.toks)
  ELSE [ok |-> TRUE, value |-> <<>>]

\* NoContent testing strippedText === undefined in place of !strippedText
NoContentUndefinedOnly(strippedText, attachments) ==
  strippedText.t = "undefined" /\ Len(attachments) = 0

\* !strippedText && attachments.length === 0
NoContent(strippedText, attachments) ==
  ~Truthy(strippedText) /\ Len(attachments) = 0

\* IsImage testing startsWith("image")
IsImageNoSlash(attachment) == StartsWith(attachment.contentType.s, "image")

\* attachment["content-type"].startsWith("image/"), where it is a string
IsImage(attachment) == StartsWith(attachment.contentType.s, "image/")

\* FirstChoiceContent wrapped in a template literal
FirstChoiceContentAsTemplate(choices) ==
  IF Len(choices) = 0 THEN Str(TemplateStr(Undefined))
  ELSE IF ~choices[1].hasMessage THEN Str(TemplateStr(Undefined))
  ELSE Str(TemplateStr(choices[1].content))

\* completion.choices[0]?.message?.content
FirstChoiceContent(choices) ==
  IF Len(choices) = 0 THEN Undefined
  ELSE IF ~choices[1].hasMessage THEN Undefined
  ELSE choices[1].content

\* ReplyText quoting the original message under the reply in every handler
ReplyTextWithOriginal(rn, aiResponse) ==
  aiResponse.s \o "\n\n------ Original Message ------\nFrom: "
    \o TemplateStr(rn.sender) \o "\nSubject: " \o TemplateStr(rn.subject)
    \o "\n\n" \o TemplateStr(rn.strippedText)

\* the text of the reply
ReplyText(rn, aiResponse) ==
  IF rn.variant = "hono"
  THEN aiResponse.s \o "\n\n------ Original Message ------\nFrom: "
         \o TemplateStr(rn.sender) \o "\nSubject: " \o TemplateStr(rn.subject)
         \o "\n\n" \o TemplateStr(rn.strippedText)
  ELSE TemplateStr(aiResponse)

\* Envelope with the threading headers written as `${messageId}`
EnvelopeTemplateHeaders(rn, aiResponse) ==
  [k \in {"from", "to", "subject", "text", "h:In-Reply-To", "h:References"} |->
     CASE k = "from" -> Str(FROM_EMAIL)
       [] k = "to" -> rn.sender
       [] k = "subject" -> Str("Re: " \o TemplateStr(rn.subject))
       [] k = "text" -> Str(TemplateStr(aiResponse))
       [] OTHER -> Str(TemplateStr(rn.messageId))]

\* the data argument of mg.messages.create
Envelope(rn, aiResponse) ==
  IF rn.variant = "hono"
  THEN [k \in {"from", "to", "subject", "text"} |->
          CASE k = "from" -> Str(FROM_EMAIL)
            [] k = "to" -> rn.sender
            [] k = "subject" -> Str("Re: " \o TemplateStr(rn.subject))
            [] OTHER -> Str(ReplyText(rn, aiResponse))]
  ELSE [k \in {"from", "to", "subject", "text", "h:In-Reply-To", "h:References"} |->
          CASE k = "from" -> Str(FROM_EMAIL)
            [] k = "to" -> rn.sender
            [] k = "subject" -> Str("Re: " \o TemplateStr(rn.subject))
            [] k = "text" -> Str(ReplyText(rn, aiResponse))
            [] OTHER -> rn.messageId]

\* CallCompletion without await: the send is started before the completion
\* has returned
CallCompletionNoAwait(rn) ==
  [rn EXCEPT !.pc = "completion",
             !.calls = @ \o <<CompletionEvent("call", rn.userContent),
                              DispatchEvent("call", NoEnvelope)>>]

\* openai.chat.completions.create({messages, ...}) is called
CallCompletion(rn) ==
  [rn EXCEPT !.pc = "completion",
             !.calls = Append(@, CompletionEvent("call", rn.userContent))]

\* the start of the handler, up to the first await or throw
Extract(rn) ==
  LET body == rn.body
      parsed == ParseAttachments(body.attachments)
      got == [rn EXCEPT !.sender = body.sender, !.subject = body.subject,
                        !.strippedText = body.strippedText]
  IN  IF rn.variant = "api"
      THEN IF ~parsed.ok
           THEN Catch([got EXCEPT !.messageId = body.messageId],
                      Error("Unexpected end of JSON input"))
           ELSE LET ext == [got EXCEPT !.messageId = body.messageId,
                                       !.attachments = parsed.value]
                IN  IF NoContent(body.strippedText, parsed.value)
                    THEN Catch(ext, Error("No email content or attachments found"))
                    ELSE [ext EXCEPT !.pc = "loop", !.idx = 1,
                            !.userContent =
                              IF Truthy(body.strippedText)
                              THEN <<TextPart(body.strippedText.s)>>
                              ELSE <<>>]
      ELSE LET ext == IF rn.variant = "express"
                      THEN [got EXCEPT !.messageId = body.messageId]
                      ELSE got
           IN  IF ~Truthy(body.strippedText)
               THEN Catch(ext, Error("No email content found"))
               ELSE CallCompletion(
                      [ext EXCEPT !.userContent = <<TextPart(body.strippedText.s)>>])

\* LoopStep starting the download without await
LoopStepNoAwait(rn) ==
  IF rn.idx > Len(rn.attachments)
  THEN CallCompletion(rn)
  ELSE LET attachment == rn.attachments[rn.idx]
       IN  IF attachment.contentType.t # "string"
           THEN Catch(rn, Error("Cannot read properties of undefined (reading 'startsWith')"))
           ELSE IF IsImage(attachment)
           THEN [rn EXCEPT !.idx = @ + 1,
                           !.calls = Append(@, FetchEvent("call", attachment.url))]
           ELSE [rn EXCEPT !.idx = @ + 1]

\* one iteration of for (const attachment of attachments), or its exit
LoopStep(rn) ==
  IF rn.idx > Len(rn.attachments)
  THEN CallCompletion(rn)
  ELSE LET attachment == rn.attachments[rn.idx]
       IN  IF attachment.contentType.t # "string"
           THEN Catch(rn, Error("Cannot read properties of undefined (reading 'startsWith')"))
           ELSE IF IsImage(attachment)
           THEN [rn EXCEPT !.pc = "fetch",
                           !.calls = Append(@, FetchEvent("call", attachment.url))]
           ELSE [rn EXCEPT !.idx = @ + 1]

\* FetchSettled with the download error caught inside the loop
FetchSettledSkipsFailure(rn, out) ==
  LET attachment == rn.attachments[rn.idx]
  IN  IF out.rejected \/ ~out.ok
      THEN [rn EXCEPT !.pc = "loop", !.idx = @ + 1,
                      !.calls = Append(@, FetchEvent("fail", attachment.url))]
      ELSE [rn EXCEPT !.pc = "loop", !.idx = @ + 1,
                      !.calls = Append(@, FetchEvent("ok", attachment.url)),
                      !.userContent =
                        Append(@, ImagePart(DataUri(attachment.contentType.s,
                                                    Base64(out.bytes))))]

\* downloadAttachment settles, and the loop body after the await
FetchSettled(rn, out) ==
  LET attachment == rn.attachments[rn.idx]
  IN  IF out.rejected
      THEN Catch([rn EXCEPT !.calls = Append(@, FetchEvent("fail", attachment.url))],
                 Error("fetch failed"))
      ELSE IF ~out.ok
      THEN Catch([rn EXCEPT !.calls = Append(@, FetchEvent("fail", attachment.url))],
                 Error("Failed to download attachment: " \o out.status \o " "
                         \o out.statusText))
      ELSE [rn EXCEPT !.pc = "loop", !.idx = @ + 1,
                      !.calls = Append(@, FetchEvent("ok", attachment.url)),
                      !.userContent =
                        Append(@, ImagePart(DataUri(attachment.contentType.s,
                                                    Base64(out.bytes))))]

\* CompletionSettled with mg.messages.create not awaited: the handler
\* answers success as soon as the send is started
CompletionSettledFireAndForget(rn, out) ==
  IF out.rejected
  THEN Catch([rn EXCEPT !.calls = Append(@, CompletionEvent("fail", <<>>))], out.err)
  ELSE LET aiResponse == FirstChoiceContent(out.choices)
           back == [rn EXCEPT !.calls = Append(@, CompletionEvent("ok", <<>>)),
                              !.completion = out.choices,
                              !.aiResponse = aiResponse]
       IN  IF ~Truthy(aiResponse)
           THEN Catch(back, Error("Failed to generate AI response"))
           ELSE Respond([back EXCEPT
                   !.calls = Append(@, DispatchEvent("call", Envelope(rn, aiResponse)))])

\* the completion call settles; on a usable reply mg.messages.create is called
CompletionSettled(rn, out) ==
  IF out.rejected
  THEN Catch([rn EXCEPT !.calls = Append(@, CompletionEvent("fail", <<>>))], out.err)
  ELSE LET aiResponse == FirstChoiceContent(out.choices)
           back == [rn EXCEPT !.calls = Append(@, CompletionEvent("ok", <<>>)),
                              !.completion = out.choices,
                              !.aiResponse = aiResponse]
       IN  IF ~Truthy(aiResponse)
           THEN Catch(back, Error("Failed to generate AI response"))
           ELSE [back EXCEPT !.pc = "dispatch",
                   !.calls = Append(@, DispatchEvent("call", Envelope(rn, aiResponse)))]

\* DispatchSettled with the rejection of mg.messages.create not awaited
DispatchSettledIgnoresFailure(rn, out) ==
  IF out.rejected
  THEN Respond([rn EXCEPT !.calls = Append(@, DispatchEvent("fail", NoEnvelope))])
  ELSE Respond([rn EXCEPT !.calls = Append(@, DispatchEvent("ok", NoEnvelope))])

\* mg.messages.create settles
DispatchSettled(rn, out) ==
  IF out.rejected
  THEN Catch([rn EXCEPT !.calls = Append(@, DispatchEvent("fail", NoEnvelope))], out.err)
  ELSE Respond([rn EXCEPT !.calls = Append(@, DispatchEvent("ok", NoEnvelope))])

----------------------------------------------------------------------------
(* Actions *)

Init == runs = [r \in Runs |-> IdleRun]

\* a webhook call arrives at one of the handlers
Receive(r) ==
  /\ runs[r].pc = "idle"
  /\ \E variant \in Variants :
       \E body \in Payloads(variant) :
         runs' = [runs EXCEPT ![r] =
                    [IdleRun EXCEPT !.variant = variant, !.body = body,
                                    !.pc = "extract"]]

\* Validate with sender, subject and messageId declared at module scope:
\* the assignment is seen by every call in flight
ValidateSharedLocals(r) ==
  /\ runs[r].pc = "extract"
  /\ runs' = [q \in Runs |->
               IF q = r THEN Extract(runs[r])
               ELSE IF runs[q].pc \in {"idle", "done"} THEN runs[q]
               ELSE [runs[q] EXCEPT !.sender = runs[r].body.sender,
                                    !.subject = runs[r].body.subject,
                                    !.messageId = runs[r].body.messageId]]

Validate(r) ==
  /\ runs[r].pc = "extract"
  /\ runs' = [runs EXCEPT ![r] = Extract(@)]

AttachmentLoop(r) ==
  /\ runs[r].pc = "loop"
  /\ runs' = [runs EXCEPT ![r] = LoopStep(@)]

FetchReturn(r) ==
  /\ runs[r].pc = "fetch"
  /\ \E out \in FetchOutcomes(runs[r].attachments[runs[r].idx].url) :
       runs' = [runs EXCEPT ![r] = FetchSettled(@, out)]

CompletionReturn(r) ==
  /\ runs[r].pc = "completion"
  /\ \E out \in CompletionOutcomes :
       runs' = [runs EXCEPT ![r] = CompletionSettled(@, out)]

DispatchReturn(r) ==
  /\ runs[r].pc = "dispatch"
  /\ \E out \in DispatchOutcomes :
       runs' = [runs EXCEPT ![r] = DispatchSettled(@, out)]

Step(r) ==
  \/ Receive(r)
  \/ Validate(r)
  \/ AttachmentLoop(r)
  \/ FetchReturn(r)
  \/ CompletionReturn(r)
  \/ DispatchReturn(r)

\* one webhook call in flight
Next == Step(1)

Spec == Init /\ [][Next]_vars

\* The payloads of the runs whose termination is checked: sender, subject
\* and Message-Id are only copied into the envelope, so one value of each.
LivePayloads(variant) ==
  { body \in Payloads(variant) :
      /\ body.sender = Str("a@x.com")
      /\ body.subject = Str("Hi")
      /\ body.messageId = Undefined }

ReceiveLive(r) ==
  /\ runs[r].pc = "idle"
  /\ \E variant \in Variants :
       \E body \in LivePayloads(variant) :
         runs' = [runs EXCEPT ![r] =
                    [IdleRun EXCEPT !.variant = variant, !.body = body,
                                    !.pc = "extract"]]

NextLive ==
  \/ ReceiveLive(1)
  \/ Validate(1)
  \/ AttachmentLoop(1)
  \/ FetchReturn(1)
  \/ CompletionReturn(1)
  \/ DispatchReturn(1)

\* a handler that has been entered runs on, and every external call it
\* waits for settles
FairSpec ==
  /\ Init /\ [][NextLive]_vars
  /\ WF_vars(Validate(1))
  /\ WF_vars(AttachmentLoop(1))
  /\ WF_vars(FetchReturn(1))
  /\ WF_vars(CompletionReturn(1))
  /\ WF_vars(DispatchReturn(1))

----------------------------------------------------------------------------
(* Several webhook calls in flight *)

\* the payloads of the concurrent calls: they differ in every field
ConcPayloads ==
  { [sender |-> Str("a@x.com"), subject |-> Str("Hi"),
     strippedText |-> Str("What's 2+2?"), messageId |-> Str("<m1@x.com>"),
     attachments |->
       AttJSON(<<[url |-> "https://mg/a1", contentType |-> Str("image/png")]>>)],
    [sender |-> Str("b@y.org"), subject |-> Str("Re: Hi"),
     strippedText |-> Str(""), messageId |-> Undefined,
     attachments |->
       AttJSON(<<[url |-> "https://mg/a2", contentType |-> Str("image/jpeg")],
                 [url |-> "https://mg/a3", contentType |-> Str("text/plain")]>>)],
    [sender |-> Str("c@z.net"), subject |-> Undefined,
     strippedText |-> Undefined, messageId |-> Str("<m3@z.net>"),
     attachments |-> AttUndefined] }

ReceiveConc(r) ==
  /\ runs[r].pc = "idle"
  /\ \E body \in ConcPayloads :
       runs' = [runs EXCEPT ![r] =
                  [IdleRun EXCEPT !.variant = "api", !.body = body,
                                  !.pc = "extract"]]

\* any number of calls of the api handler, interleaved at their awaits
NextConc ==
  \E r \in Runs :
    \/ ReceiveConc(r)
    \/ Validate(r)
    \/ AttachmentLoop(r)
    \/ FetchReturn(r)
    \/ CompletionReturn(r)
    \/ DispatchReturn(r)

SpecConc == Init /\ [][NextConc]_vars

----------------------------------------------------------------------------
(* Reading a run's history *)

\* the positions of the events of a kind
Events(rn, op, phase) ==
  { i \in 1..Len(rn.calls) : rn.calls[i].op = op /\ rn.calls[i].phase = phase }

Called(rn, op) == Events(rn, op, "call") # {}

Failed(rn) == rn.pc = "done" /\ rn.thrown

ValidationMessages ==
  {"No email content or attachments found", "No email content found"}

GenerationMessage == "Failed to generate AI response"

\* the payload carries no attachment at all
ZeroAttachments(body) ==
  \/ body.attachments.t = "undefined"
  \/ body.attachments.t = "string"
       /\ body.attachments.toks \in {<<>>, <<LBracket, RBracket>>}
  \/ body.attachments.t = "array" /\ body.attachments.items = <<>>

\* the attachments field is the JSON text of the list the sender encoded
SentAsJSON(body) ==
  /\ body.attachments.t = "string"
  /\ body.attachments.toks = JSONStringify(body.attachments.sent)

\* contentType begins with "image/"
ImageType(a) ==
  /\ a.contentType.t = "string"
  /\ Len(a.contentType.s) >= 6
  /\ SubSeq(a.contentType.s, 1, 6) = "image/"

----------------------------------------------------------------------------
(* C1 *)

\* C1: a run that ends in failure has delivered no email: no dispatch call
\* has succeeded, a dispatch call that was made is the call that failed and
\* the last thing the run did, and the caller got a non-success response
\* with a message.
C1_NoMailOnFailure ==
  \A r \in Runs :
    LET rn == runs[r]
    IN  Failed(rn) =>
          /\ Events(rn, "dispatch", "ok") = {}
          /\ Called(rn, "dispatch") =>
               /\ rn.calls[Len(rn.calls)].op = "dispatch"
               /\ rn.calls[Len(rn.calls)].phase = "fail"
          /\ rn.response.status = 500
          /\ rn.response.body.status = "error"
          /\ rn.response.body.message # ""

\* a run whose dispatch call failed has ended
C1_Witness ==
  \E r \in Runs :
    /\ Failed(runs[r])
    /\ Events(runs[r], "dispatch", "fail") # {}
    /\ runs[r].variant = "api"

----------------------------------------------------------------------------
(* C2 *)

\* C2: a record with empty text whose attachments are none or all of a
\* declared non-image type fails with a validation error, and the completion provider is never
\* invoked with an empty content sequence.
C2_EmptyContentIsValidationError ==
  \A r \in Runs :
    LET rn == runs[r]
    IN  rn.variant = "api" =>
          /\ \A i \in Events(rn, "completion", "call") : rn.calls[i].content # <<>>
          /\ LET l == rn.body.attachments.sent
             IN  ( /\ rn.pc = "done"
                   /\ ~Truthy(rn.body.strippedText)
                   /\ SentAsJSON(rn.body)
                   /\ \A i \in 1..Len(l) :
                        l[i].contentType.t = "string" /\ ~ImageType(l[i]) )
                 => /\ rn.thrown
                    /\ rn.error.message \in ValidationMessages

----------------------------------------------------------------------------
(* C3 *)

\* C3: a payload with empty text and zero attachments fails at validation
\* before any external call: once validated the run has ended with the
\* validation error and has made no fetch, no completion and no dispatch
\* call.
C3_EmptyPayloadFailsFast ==
  \A r \in Runs :
    LET rn == runs[r]
    IN  ( /\ rn.pc \notin {"idle", "extract"}
          /\ ~Truthy(rn.body.strippedText)
          /\ ZeroAttachments(rn.body) )
        => /\ Failed(rn)
           /\ rn.error.message \in ValidationMessages
           /\ rn.response.status = 500
           /\ rn.calls = <<>>

\* the api handler has rejected a payload with "" as text and "[]" as
\* attachments
C3_Witness ==
  \E r \in Runs :
    /\ runs[r].variant = "api"
    /\ runs[r].pc = "done"
    /\ runs[r].body.strippedText = Str("")
    /\ runs[r].body.attachments = AttJSON(<<>>)

----------------------------------------------------------------------------
(* C4 *)

RECURSIVE ReferenceImages(_)
ReferenceImages(l) ==
  IF l = <<>> THEN <<>>
  ELSE IF ImageType(l[1])
  THEN <<ImagePart("data:" \o l[1].contentType.s \o ";base64,"
                     \o Base64(BytesAt(l[1].url)))>>
         \o ReferenceImages(Tail(l))
  ELSE ReferenceImages(Tail(l))

\* the Text part iff the text is non-empty, then the image attachments in
\* payload order
ReferenceContent(strippedText, l) ==
  (IF Truthy(strippedText) THEN <<TextPart(strippedText.s)>> ELSE <<>>)
    \o ReferenceImages(l)

\* C4: the content sent to the completion provider is the reference
\* sequence of the payload: the Text part first iff the text is non-empty,
\* then one ImageReference per image attachment in payload order, nothing
\* for the others (text plus N images gives 1 + N parts).
C4_ContentIsReference ==
  \A r \in Runs :
    LET rn == runs[r]
    IN  rn.variant = "api" =>
          \A i \in Events(rn, "completion", "call") :
            LET l == rn.body.attachments.sent
            IN  SentAsJSON(rn.body) =>
                  /\ rn.calls[i].content = ReferenceContent(rn.body.strippedText, l)
                  /\ Len(rn.calls[i].content) =
                       (IF Truthy(rn.body.strippedText) THEN 1 ELSE 0)
                         + Cardinality({ k \in 1..Len(l) : ImageType(l[k]) })

\* text and image, non-image, image: three parts were sent, the png before
\* the jpeg
C4_Witness ==
  \E r \in Runs :
    LET rn == runs[r]
    IN  /\ rn.variant = "api"
        /\ Truthy(rn.body.strippedText)
        /\ Len(rn.attachments) = 3
        /\ rn.attachments[1].contentType = Str("image/png")
        /\ rn.attachments[2].contentType = Str("text/plain")
        /\ rn.attachments[3].contentType = Str("image/jpeg")
        /\ \E i \in Events(rn, "completion", "call") :
             Len(rn.calls[i].content) = 3

----------------------------------------------------------------------------
(* C5 *)

\* the declared type is missing, or is no type/subtype pair
MissingOrMalformedType(a) ==
  \/ a.contentType.t # "string"
  \/ \A k \in 1..Len(a.contentType.s) : SubSeq(a.contentType.s, k, k) # "/"

\* C5: an attachment whose contentType is missing or malformed is skipped:
\* its url is never fetched, and a record with text whose attachments are
\* all of that kind is normalized, it does not end before the completion
\* call.
C5_BadTypeIsSkipped ==
  \A r \in Runs :
    LET rn == runs[r]
    IN  rn.variant = "api" =>
          LET l == rn.body.attachments.sent
          IN  SentAsJSON(rn.body) =>
              /\ \A i \in Events(rn, "fetch", "call") :
                   \A k \in 1..Len(l) :
                     MissingOrMalformedType(l[k]) => rn.calls[i].url # l[k].url
              /\ ( /\ Truthy(rn.body.strippedText)
                   /\ \A k \in 1..Len(l) : MissingOrMalformedType(l[k])
                   /\ rn.pc = "done" )
                 => Called(rn, "completion")

----------------------------------------------------------------------------
(* C6 *)

\* no choice, or a first choice without message text
NoUsableText(choices) ==
  \/ choices = <<>>
  \/ ~choices[1].hasMessage
  \/ choices[1].content.t # "string"
  \/ choices[1].content.s = ""

\* C6: in each handler, when the completion provider returns an empty
\* choices list or a first choice whose text is absent or empty, the run
\* fails with the generation error and makes no dispatch call.
C6_NoTextIsGenerationError ==
  \A r \in Runs :
    LET rn == runs[r]
    IN  ( Events(rn, "completion", "ok") # {} /\ NoUsableText(rn.completion) )
        => /\ Failed(rn)
           /\ rn.error.message = GenerationMessage
           /\ rn.response.status = 500
           /\ ~Called(rn, "dispatch")

\* the hono handler has got a completion with an empty choices list
C6_Witness ==
  \E r \in Runs :
    /\ runs[r].variant = "hono"
    /\ Events(runs[r], "completion", "ok") # {}
    /\ runs[r].completion = <<>>
    /\ runs[r].pc = "done"

----------------------------------------------------------------------------
(* C7 *)

\* C7: a failed attachment fetch ends the run in failure: the failure
\* answers the call made just before it for the attachment the loop is at,
\* it is the last event of the run (no retry, no later fetch), and no
\* completion call and no dispatch call is made.
C7_FailedFetchAborts ==
  \A r \in Runs :
    LET rn == runs[r]
    IN  \A i \in Events(rn, "fetch", "fail") :
          /\ i = Len(rn.calls)
          /\ Failed(rn)
          /\ rn.response.status = 500
          /\ i - 1 \in Events(rn, "fetch", "call")
          /\ rn.calls[i - 1].url = rn.calls[i].url
          /\ rn.calls[i].url = rn.attachments[rn.idx].url
          /\ ~Called(rn, "completion")
          /\ ~Called(rn, "dispatch")

\* the fetch of the first of two images failed
C7_Witness ==
  \E r \in Runs :
    LET rn == runs[r]
    IN  /\ Events(rn, "fetch", "fail") # {}
        /\ Len(rn.attachments) >= 2
        /\ rn.idx = 1
        /\ ImageType(rn.attachments[1])
        /\ ImageType(rn.attachments[2])

----------------------------------------------------------------------------
(* C8 *)

\* the value mg.messages.create is given under a key, undefined if none
Header(envelope, k) == IF k \in DOMAIN envelope THEN envelope[k] ELSE Undefined

ThreadingVariants == {"api", "express"}

----------------------------------------------------------------------------
(* C9 *)

\* C9: the subject of every dispatched reply is "Re: " followed by the
\* original subject, an absent subject counting as the empty string.
C9_SubjectIsRePrefixed ==
  \A r \in Runs :
    LET rn == runs[r]
    IN  \A i \in Events(rn, "dispatch", "call") :
          Header(rn.calls[i].envelope, "subject") =
            Str("Re: " \o (IF rn.body.subject.t = "string"
                           THEN rn.body.subject.s ELSE ""))

----------------------------------------------------------------------------
(* C10 *)

\* C10: for a payload without sender no completion call and no dispatch
\* call is made.
C10_MissingSenderFailsValidation ==
  \A r \in Runs :
    LET rn == runs[r]
    IN  (rn.pc # "idle" /\ rn.body.sender.t # "string") =>
          /\ ~Called(rn, "completion")
          /\ ~Called(rn, "dispatch")

----------------------------------------------------------------------------
(* C11 *)

\* the handlers that send the reply text alone
VerbatimVariants == {"api", "express"}

----------------------------------------------------------------------------
(* C12 *)

\* C12: a success response is preceded by a successful dispatch, the last
\* event of the run, which is preceded by a completion that returned
\* non-empty text.
C12_SuccessAfterDispatch ==
  \A r \in Runs :
    LET rn == runs[r]
    IN  rn.response.status = 200 =>
          /\ rn.pc = "done"
          /\ Len(rn.calls) \in Events(rn, "dispatch", "ok")
          /\ Events(rn, "dispatch", "fail") = {}
          /\ \E j \in Events(rn, "completion", "ok") :
               \E i \in Events(rn, "dispatch", "call") : j < i
          /\ ~NoUsableText(rn.completion)

\* the express handler has answered success
C12_Witness ==
  \E r \in Runs :
    /\ runs[r].variant = "express"
    /\ runs[r].response.status = 200
    /\ runs[r].response.body.status = "success"

----------------------------------------------------------------------------
(* C13 *)

\* the positions in l of the attachments whose type begins with "image/"
RECURSIVE ImagePositionsFrom(_, _)
ImagePositionsFrom(l, k) ==
  IF k > Len(l) THEN <<>>
  ELSE IF ImageType(l[k]) THEN <<k>> \o ImagePositionsFrom(l, k + 1)
  ELSE ImagePositionsFrom(l, k + 1)

ImagePositions(l) == ImagePositionsFrom(l, 1)

\* the fetch calls of a run, in the order they were made
FetchCalls(rn) == SelectSeq(rn.calls, LAMBDA e : e.op = "fetch" /\ e.phase = "call")

\* C13: an error ends the run in the one catch: the run is done (it does
\* not continue), the caller has the structured failure response with the
\* error's message, and a failed call is the last event of the run; a run
\* that ended without error answered success; and no external call is made
\* twice: at most one completion call, at most one dispatch call, and the
\* k-th fetch is for the k-th image attachment.
C13_ErrorsCaughtOnce ==
  \A r \in Runs :
    LET rn == runs[r]
    IN  /\ rn.thrown =>
             /\ rn.pc = "done"
             /\ rn.response.status = 500
             /\ rn.response.body.status = "error"
             /\ rn.response.body.message =
                  (IF rn.error.isError THEN rn.error.message
                   ELSE "An unknown error occurred")
        /\ \A i \in 1..Len(rn.calls) :
             rn.calls[i].phase = "fail" => (rn.thrown /\ i = Len(rn.calls))
        /\ (rn.pc = "done" /\ ~rn.thrown) => rn.response.status = 200
        /\ rn.pc # "done" => rn.response = NoResponse
        /\ Cardinality(Events(rn, "completion", "call")) <= 1
        /\ Cardinality(Events(rn, "dispatch", "call")) <= 1
        /\ Len(FetchCalls(rn)) <= Len(ImagePositions(rn.attachments))
        /\ \A k \in 1..Len(FetchCalls(rn)) :
             FetchCalls(rn)[k].url =
               rn.attachments[ImagePositions(rn.attachments)[k]].url

\* after one image was fetched the second fetch failed with 404
C13_Witness ==
  \E r \in Runs :
    LET rn == runs[r]
    IN  /\ rn.thrown
        /\ Events(rn, "fetch", "ok") # {}
        /\ Events(rn, "fetch", "fail") # {}
        /\ rn.error.message = "Failed to download attachment: 404 Not Found"

----------------------------------------------------------------------------
(* C14 *)

\* where the handler, running alone, gets from rn in one step
SoloSuccessors(rn) ==
  CASE rn.pc = "extract" -> {Extract(rn)}
    [] rn.pc = "loop" -> {LoopStep(rn)}
    [] rn.pc = "fetch" ->
         { FetchSettled(rn, out) : out \in FetchOutcomes(rn.attachments[rn.idx].url) }
    [] rn.pc = "completion" -> { CompletionSettled(rn, out) : out \in CompletionOutcomes }
    [] rn.pc = "dispatch" -> { DispatchSettled(rn, out) : out \in DispatchOutcomes }
    [] OTHER -> {}

RECURSIVE SoloClosure(_, _)
SoloClosure(seen, frontier) ==
  IF frontier = {} THEN seen
  ELSE LET new == (UNION { SoloSuccessors(rn) : rn \in frontier }) \ seen
       IN  SoloClosure(seen \cup new, new)

\* every record a call of ConcPayloads can be in when it is processed alone
SoloRecords ==
  LET received == { [IdleRun EXCEPT !.variant = "api", !.body = body,
                                    !.pc = "extract"] : body \in ConcPayloads }
  IN  SoloClosure({IdleRun} \cup received, received)

\* the list the payload carries
SentList(body) == IF SentAsJSON(body) THEN body.attachments.sent ELSE <<>>

\* what the run asked for and sent is made of its own payload, and its
\* failure is the one its own history gives
OwnOutcome(rn) ==
  /\ \A i \in Events(rn, "completion", "call") :
       rn.calls[i].content =
         ReferenceContent(rn.body.strippedText, SentList(rn.body))
  /\ \A i \in Events(rn, "dispatch", "call") :
       LET envelope == rn.calls[i].envelope
       IN  /\ Header(envelope, "to") = rn.body.sender
           /\ Header(envelope, "subject") =
                Str("Re: " \o TemplateStr(rn.body.subject))
           /\ Header(envelope, "h:In-Reply-To") = rn.body.messageId
           /\ Header(envelope, "h:References") = rn.body.messageId
           /\ Header(envelope, "text") = rn.completion[1].content
  /\ Failed(rn) =>
       IF rn.calls = <<>>
       THEN /\ rn.error.message \in ValidationMessages
            /\ ~Truthy(rn.body.strippedText)
            /\ SentList(rn.body) = <<>>
       ELSE LET last == rn.calls[Len(rn.calls)]
            IN  CASE last.op = "fetch" ->
                       /\ last.phase = "fail"
                       /\ rn.error.message \in
                            {"fetch failed",
                             "Failed to download attachment: 404 Not Found"}
                  [] last.op = "completion" /\ last.phase = "fail" ->
                       rn.error = Error("429 Rate limit")
                  [] last.op = "completion" /\ last.phase # "fail" ->
                       /\ last.phase = "ok"
                       /\ rn.error.message = GenerationMessage
                       /\ NoUsableText(rn.completion)
                  [] OTHER ->
                       /\ last.op = "dispatch" /\ last.phase = "fail"
                       /\ rn.error \in {Error("Unauthorized"), ThrownNonError}

\* a step is a step of one run, which leaves the others as they are
OneRunSteps ==
  \A r \in Runs :
    runs'[r] # runs[r] => \A q \in Runs \ {r} : runs'[q] = runs[q]

\* C14: however the calls in flight interleave, each run is in a state the
\* same record reaches when it is processed alone, its calls and its failure
\* are made of its own payload and history, and no step of one run changes
\* another run.
C14_RunsAreIndependent ==
  /\ [](\A r \in Runs : runs[r] \in SoloRecords /\ OwnOutcome(runs[r]))
  /\ [][OneRunSteps]_vars

\* two calls with different payloads are in flight, one waiting for its
\* fetch and one for its dispatch
C14_Witness ==
  \E r \in Runs :
    \E q \in Runs \ {r} :
      /\ runs[r].pc = "fetch"
      /\ runs[q].pc = "dispatch"
      /\ runs[r].body.sender # runs[q].body.sender

----------------------------------------------------------------------------
(* C15 *)

\* the state of the pipeline a handler position belongs to; composing the
\* envelope has no await and happens in the step that starts the dispatch
Phase(rn) ==
  CASE rn.pc = "idle" -> "Idle"
    [] rn.pc = "extract" -> "Validating"
    [] rn.pc \in {"loop", "fetch"} -> "Normalizing"
    [] rn.pc = "completion" -> "Generating"
    [] rn.pc = "dispatch" -> "Dispatching"
    [] rn.thrown -> "Failed"
    [] OTHER -> "Succeeded"

PhaseRank(phase) ==
  CASE phase = "Idle" -> 0
    [] phase = "Validating" -> 1
    [] phase = "Normalizing" -> 2
    [] phase = "Generating" -> 3
    [] phase = "Dispatching" -> 5
    [] OTHER -> 6

Terminal == {"Succeeded", "Failed"}

\* what a step of a run may do to its state
PhaseStep(old, new) ==
  /\ Phase(old) \in Terminal => new = old
  /\ PhaseRank(Phase(new)) >= PhaseRank(Phase(old))
  /\ Phase(new) = "Succeeded" => Phase(old) \in {"Dispatching", "Succeeded"}
  /\ Phase(new) = "Dispatching" => Phase(old) \in {"Generating", "Dispatching"}
  /\ Phase(new) = "Generating" =>
       Phase(old) \in {"Validating", "Normalizing", "Generating"}
  /\ Phase(new) = "Normalizing" => Phase(old) \in {"Validating", "Normalizing"}
  /\ Phase(new) = "Validating" => Phase(old) = "Idle"

\* C15: a run goes through Validating, Normalizing, Generating, (Composing,)
\* Dispatching in that order and never back; it ends in Succeeded or in
\* Failed, which it reaches from any state, and a run that has ended does
\* not change any more.
C15_LinearStateMachine ==
  [][\A r \in Runs : PhaseStep(runs[r], runs'[r])]_vars

\* a run has gone through every state and succeeded
C15_Witness ==
  \E r \in Runs :
    LET rn == runs[r]
    IN  /\ rn.variant = "api"
        /\ Phase(rn) = "Succeeded"
        /\ Events(rn, "fetch", "ok") # {}
        /\ Events(rn, "completion", "ok") # {}
        /\ Events(rn, "dispatch", "ok") # {}

----------------------------------------------------------------------------
(* C16 *)

\* C16: the downloads of a run are sequential: a fetch call is answered by
\* the next event of the run, so at most one is outstanding, and every
\* fetch before it has succeeded.
C16_SequentialFetches ==
  \A r \in Runs :
    LET rn == runs[r]
    IN  \A i \in Events(rn, "fetch", "call") :
          /\ i < Len(rn.calls) =>
               /\ rn.calls[i + 1].op = "fetch"
               /\ rn.calls[i + 1].phase \in {"ok", "fail"}
               /\ rn.calls[i + 1].url = rn.calls[i].url
          /\ i = Len(rn.calls) => rn.pc = "fetch"
          /\ \A j \in 1..(i - 1) :
               /\ rn.calls[j].op = "fetch"
               /\ rn.calls[j].phase \in {"call", "ok"}
               /\ rn.calls[j].phase = "call" => rn.calls[j + 1].phase = "ok"

\* the second download of a run is outstanding
C16_Witness ==
  \E r \in Runs :
    LET rn == runs[r]
    IN  /\ rn.pc = "fetch"
        /\ Cardinality(Events(rn, "fetch", "call")) = 2
        /\ Cardinality(Events(rn, "fetch", "ok")) = 1

----------------------------------------------------------------------------
(* C17 *)

\* C17: the external calls of a run go one way: every fetch event comes
\* before the completion call, the completion has returned before the
\* dispatch call, and after the dispatch call there are only dispatch events.
C17_CallsGoOneWay ==
  \A r \in Runs :
    LET rn == runs[r]
    IN  /\ \A i \in Events(rn, "completion", "call") :
             /\ \A j \in 1..Len(rn.calls) : rn.calls[j].op = "fetch" => j < i
             /\ \A j \in 1..(i - 1) :
                  rn.calls[j].op = "fetch" /\ rn.calls[j].phase = "call"
                    => rn.calls[j + 1].phase = "ok"
        /\ \A i \in Events(rn, "dispatch", "call") :
             /\ \E j \in Events(rn, "completion", "ok") : j < i
             /\ \A j \in 1..Len(rn.calls) :
                  j > i <=> rn.calls[j].op = "dispatch" /\ rn.calls[j].phase # "call"

\* a run has fetched, generated and started the dispatch
C17_Witness ==
  \E r \in Runs :
    LET rn == runs[r]
    IN  /\ rn.pc = "dispatch"
        /\ Cardinality(Events(rn, "fetch", "ok")) = 2

----------------------------------------------------------------------------
(* C18 *)

\* C18: in the api handler only image attachments are fetched: every url
\* fetched is the url of an attachment whose type begins with "image/", and
\* when the completion is called the number of fetches, the number of image
\* attachments of the payload and the number of image parts sent are the
\* same.
C18_OnlyImagesAreFetched ==
  \A r \in Runs :
    LET rn == runs[r]
        l == SentList(rn.body)
        images == { k \in 1..Len(l) : ImageType(l[k]) }
    IN  rn.variant = "api" =>
          /\ \A i \in Events(rn, "fetch", "call") :
               /\ \E k \in images : l[k].url = rn.calls[i].url
               /\ \A k \in 1..Len(l) :
                    ~ImageType(l[k]) => l[k].url # rn.calls[i].url
          /\ \A i \in Events(rn, "completion", "call") :
               /\ Cardinality(Events(rn, "fetch", "call")) = Cardinality(images)
               /\ Cardinality(Events(rn, "fetch", "ok")) = Cardinality(images)
               /\ Cardinality({ k \in 1..Len(rn.calls[i].content) :
                                  rn.calls[i].content[k].type = "image_url" })
                    = Cardinality(images)

\* the completion was called for a payload with one image between two
\* attachments that are no images
C18_Witness ==
  \E r \in Runs :
    LET rn == runs[r]
    IN  /\ rn.variant = "api"
        /\ Called(rn, "completion")
        /\ Len(rn.attachments) = 3
        /\ rn.attachments[1].contentType = Str("image")
        /\ rn.attachments[2].contentType = Str("image/jpeg")
        /\ rn.attachments[3].contentType = Str("text/plain")

----------------------------------------------------------------------------
(* C19 *)

Responded(rn) == rn.response.status \in {200, 500}

\* C19: when every external call settles, a run that was received ends and
\* has answered the caller; the answer is sent in the step that ends the
\* run and is never replaced, so it is one answer, success or failure.
C19_EveryRunAnswersOnce ==
  /\ \A r \in Runs :
       (runs[r].pc # "idle") ~> (runs[r].pc = "done" /\ Responded(runs[r]))
  /\ [][\A r \in Runs :
          /\ Responded(runs[r]) => runs'[r].response = runs[r].response
          /\ runs'[r].response # runs[r].response => runs'[r].pc = "done"]_vars

\* a run has ended with the answer for a thrown value that is no Error
C19_Witness ==
  \E r \in Runs :
    /\ runs[r].pc = "done"
    /\ runs[r].response.status = 500
    /\ runs[r].response.body.message = "An unknown error occurred"

----------------------------------------------------------------------------
(* C20 *)

\* C20: when the attachments field is absent or is no string, the api
\* handler takes the attachment list to be empty: it fetches nothing, with
\* empty text it fails validation before any call, and with text the
\* completion gets the Text part alone.
C20_OnlyJSONStringIsUsed ==
  \A r \in Runs :
    LET rn == runs[r]
    IN  ( /\ rn.variant = "api"
          /\ rn.pc \notin {"idle", "extract"}
          /\ rn.body.attachments.t # "string" )
        => /\ rn.attachments = <<>>
           /\ Events(rn, "fetch", "call") = {}
           /\ ~Truthy(rn.body.strippedText) =>
                /\ Failed(rn)
                /\ rn.error.message \in ValidationMessages
                /\ rn.calls = <<>>
           /\ Truthy(rn.body.strippedText) =>
                /\ rn.pc # "loop" => Called(rn, "completion")
                /\ \A i \in Events(rn, "completion", "call") :
                     rn.calls[i].content = <<TextPart(rn.body.strippedText.s)>>

\* the completion was called for a payload whose attachments field is an
\* array holding an image
C20_Witness ==
  \E r \in Runs :
    LET rn == runs[r]
    IN  /\ rn.variant = "api"
        /\ rn.body.attachments.t = "array"
        /\ Len(rn.body.attachments.items) = 1
        /\ ImageType(rn.body.attachments.items[1])
        /\ Called(rn, "completion")

====
